---- MODULE Spec2Model ----
(***************************************************************************)
(* Verification model of the sendkit chat pipeline:                        *)
(*   - SharedChatMonitor / ChatMonitorManager (shared connection, fan-out, *)
(*     reconnect backoff),                                                 *)
(*   - IntegratedTTSService (donation-gated, cooldown-gated dispatch),     *)
(*   - PollManager (votes, closure, winner).                               *)
(* Each component has its own specification over its own variables; the    *)
(* other components' variables stay as constructed.                        *)
(***************************************************************************)
EXTENDS Integers, Sequences, FiniteSets, TLC

(***************************************************************************)
(* Bounds of the model                                                     *)
(***************************************************************************)
\* transport clients one monitor may create in a run
MaxClients == 3
\* reconnect timers of one monitor pending at the same time
MaxTimers == 5

\* clock ticks a run of the dispatch queue or of a poll may take
MaxTicks == 3
\* milliseconds per clock tick
TickMs == 1000
\* requests the dispatch service may accept in a run (generateId)
MaxRequests == 2
\* chat messages waiting for isMessageBanned at the same time
MaxPending == 1
\* donations registered in a run
MaxDonations == 2
MaxModTasks == 2
MaxModMessages == 3
MaxLog == 2
\* transactions that reach the wallet in a run
MaxTxs == 2
\* calls of checkWalletTransactions waiting for the ledger at the same time
MaxChecks == 2
\* firings of the monitoring interval in a run
MaxWatchTicks == 5

(***************************************************************************)
(* Program constants                                                       *)
(***************************************************************************)
maxReconnectAttempts == 5
reconnectDelay == 1000
MaxDelayMs == 120000
StaggerMs == 2000

donorTimeout == 300000
RenderMs == 1000
PollTickMs == 500
DefaultMaxMessageLength == 200

checkInterval == 15000
BackoffBaseMs == 30000
BackoffCapMs == 300000
maxAge == 300000
\* minDonation of processTransaction, in hundredths of SOL
minDonation == 1
\* rpcEndpoints.length
RpcEndpoints == 3

Channels == {"c1", "c2", "c3", "c4", "c5"}
Services == {"Automod", "TTS"}
\* handler functions a service may pass to subscribe
HandlerIds == {1, 2}
\* chat messages the transport may emit
Msgs == {"m1", "m2"}

NoPending == [service |-> "none", handler |-> 0, due |-> 0]
NoFanout == [msg |-> "none", registered |-> <<>>, invoked |-> <<>>,
             threw |-> {}, threwBefore |-> {}, propagated |-> FALSE]

VARIABLES
  \* ---- ChatMonitorManager / SharedChatMonitor ----
  monitors,             \* keys of ChatMonitorManager.monitors
  client,               \* monitor.client: index into clients[c], 0 = null
  isConnected,          \* monitor.isConnected
  subscribers,          \* monitor.subscribers
  reconnectAttempts,    \* monitor.reconnectAttempts
  messageHandlers,      \* monitor._messageHandlers, in insertion order
  messageListenerAdded, \* monitor._messageListenerAdded
  clients,              \* every PumpChatClient the monitor created: its state
  timers,               \* pending setTimeout(() => this.connect(), delay)
  pendingSub,           \* a subscribe suspended in the stagger delay
  connectLog,           \* the first connect() of each new monitor, with its time
  delayLog,             \* delays scheduled since the last 'connected'
  terminal,             \* maxReconnectAttemptsReached emitted since last subscribe
  lastFanout,           \* the last run of the manager's message listener
  \* ---- IntegratedTTSService, one streamer ----
  now,                  \* Date.now(), in ms
  settings,             \* streamer.settings
  recentDonors,         \* recentDonors.get(streamerId): address -> entry
  cooldowns,            \* cooldowns.get(streamerId): last TTS time, 0 = unset
  pending,              \* messages suspended in `await isMessageBanned`
  queue,                \* streamer.queue
  drains,               \* processQueue calls suspended in simulateTTSProcessing
  ttsBroadcasts,        \* every 'tts-message' broadcast, with its time
  nextId,               \* number of the next request
  donations,            \* number of registerDonation calls so far
  enqSinceDonation,     \* gated enqueues per author since registerDonation
  \* ---- PollManager, one streamer ----
  current,              \* pollManager.current (NoPoll = null)
  tickDue,              \* when the setInterval callback is next due, 0 = no timer
  lastVote,             \* the last call of vote(): its arguments, the state
                        \* it found and what it returned
  lastStart,            \* how the last attempt to start a poll ended
  whitelist,            \* streamers.get(id).whitelist
  \* ---- AutomodService, one streamer ----
  modSettings,          \* activeStreamers.get(streamerId).settings
  modDb,                \* the streamer's automod_settings row
  modTasks,             \* handleChatMessage calls suspended at an await
  modCount,             \* number of chat messages handled so far
  banCalls,             \* ban requests posted, per user
  banOk,                \* ban requests answered with success, per user
  modBans,              \* activeStreamers.get(streamerId).stats.bans
  \* ---- the services' own transport clients, channel c1 ----
  pollChat,             \* streamers.get(id).chatClient of the poll service
  automodClient,        \* activeStreamers.get(id).automodClient: whose it is
  automodOwn,           \* the client summonAutomodWallet created itself
  \* ---- a record of the deliveries of a channel ----
  emitted,              \* the messages the transport clients emitted, in order
  invocations,          \* the handler calls, in order: emission, service, message
  \* ---- the WalletMonitor of one streamer, and the streamer's TTS entry ----
  streamerUp,           \* streamers.has(streamerId)
  monitored,            \* monitoredWallets.has(walletAddress)
  loopOn,               \* monitoringInterval is set
  lastSignature,        \* walletData.lastSignature, 0 = null
  startTime,            \* walletData.startTime
  retryCount,           \* walletData.retryCount, 0 also when undefined
  nextRetryTime,        \* walletData.nextRetryTime, 0 = null or undefined
  currentRpcIndex,      \* WalletMonitor.currentRpcIndex
  ledger,               \* the wallet's transactions; a signature is an index
  checks,               \* checkWalletTransactions calls suspended at an await
  donationEvents,       \* the signatures of the 'donation' events emitted
  lastOutcome           \* how the last answered getSignaturesForAddress ended

monVars == <<monitors, client, isConnected, subscribers, reconnectAttempts,
             messageHandlers, messageListenerAdded, clients, timers,
             pendingSub, connectLog, delayLog, terminal, lastFanout>>

ttsStateVars == <<settings, recentDonors, cooldowns, pending, queue, drains,
                  ttsBroadcasts, nextId, donations, enqSinceDonation>>

ttsVars == <<now, ttsStateVars>>

pollVars == <<current, tickDue, lastVote, lastStart, whitelist>>

modVars == <<modSettings, modDb, modTasks, modCount, banCalls, banOk, modBans>>

roomVars == <<pollChat, automodClient, automodOwn>>

obsVars == <<emitted, invocations>>

watchVars == <<streamerUp, monitored, loopOn, lastSignature, startTime,
               retryCount, nextRetryTime, currentRpcIndex, ledger, checks,
               donationEvents, lastOutcome>>

nonMonitorVars == <<ttsVars, pollVars, modVars, roomVars, obsVars, watchVars>>

nonTTSVars == <<monVars, pollVars, modVars, roomVars, obsVars, watchVars>>

nonPollVars == <<monVars, ttsStateVars, modVars, roomVars, obsVars, watchVars>>

nonModVars == <<monVars, ttsVars, pollVars, roomVars, obsVars, watchVars>>

nonRoomVars == <<monVars, ttsVars, pollVars, modVars, obsVars, watchVars>>

vars == <<monVars, ttsVars, pollVars, modVars, roomVars, obsVars, watchVars>>

(***************************************************************************)
(* Helpers                                                                 *)
(***************************************************************************)
RECURSIVE Pow(_, _)
Pow(b, e) == IF e = 0 THEN 1 ELSE b * Pow(b, e - 1)

Min(a, b) == IF a < b THEN a ELSE b

Range(s) == {s[i] : i \in 1..Len(s)}

(***************************************************************************)
(* Transport client life cycle (PumpChatClient, consumed through its       *)
(* capability contract): a client is created connecting, becomes connected *)
(* on 'connected', and is closed after 'disconnected' or disconnect().     *)
(***************************************************************************)
ClientStates == {"connecting", "connected", "closed"}

IsLive(st) == st \in {"connecting", "connected"}

LiveClients(c) == {i \in 1..Len(clients[c]) : IsLive(clients[c][i])}

(***************************************************************************)
(* SharedChatMonitor                                                       *)
(***************************************************************************)
\* a backoff that doubles instead of tripling
BackoffDelayBase2(attempt) ==
  Min(reconnectDelay * Pow(2, attempt - 1), MaxDelayMs)

\* attemptReconnect: the delay of the attempt numbered `attempt`
BackoffDelay(attempt) ==
  Min(reconnectDelay * Pow(3, attempt - 1), MaxDelayMs)

\* attemptReconnect: whether another reconnect is scheduled
MayRetry(attempts) == attempts < maxReconnectAttempts

\* attemptReconnect(), called by the 'disconnected' and 'error' handlers
AttemptReconnect(c) ==
  IF MayRetry(reconnectAttempts[c])
  THEN /\ timers[c] < MaxTimers
       /\ reconnectAttempts' = [reconnectAttempts EXCEPT ![c] = @ + 1]
       /\ timers' = [timers EXCEPT ![c] = @ + 1]
       /\ delayLog' = [delayLog EXCEPT
                         ![c] = Append(@, BackoffDelay(reconnectAttempts[c] + 1))]
       /\ UNCHANGED terminal
  ELSE /\ terminal' = [terminal EXCEPT ![c] = TRUE]
       /\ UNCHANGED <<reconnectAttempts, timers, delayLog>>

\* connect(): a new PumpChatClient replaces this.client; the previous client
\* is neither disconnected nor are its listeners removed
ClientsAfterConnect(c) == Append(clients[c], "connecting")

\* disconnect(): this.client.disconnect(); this.client = null
ClientsAfterDisconnect(c) ==
  IF client[c] # 0 THEN [clients[c] EXCEPT ![client[c]] = "closed"]
  ELSE clients[c]

(***************************************************************************)
(* ChatMonitorManager.subscribe: the part after getOrCreateMonitor         *)
(***************************************************************************)
HasHandler(hs, s) == \E i \in 1..Len(hs) : hs[i][1] = s

SubscribeTail(c, s, h) ==
  IF s \in subscribers[c]
  THEN UNCHANGED <<subscribers, messageHandlers, messageListenerAdded>>
  ELSE /\ subscribers' = [subscribers EXCEPT ![c] = @ \cup {s}]
       /\ IF HasHandler(messageHandlers[c], s)
          THEN UNCHANGED <<messageHandlers, messageListenerAdded>>
          ELSE /\ messageHandlers' =
                    [messageHandlers EXCEPT ![c] = Append(@, <<s, h>>)]
               /\ messageListenerAdded' =
                    [messageListenerAdded EXCEPT ![c] = TRUE]

\* getOrCreateMonitor, no monitor for the channel yet: the monitor is put in
\* the map, and connect() waits for the stagger delay when there is one
SubscribeNew(c, s, h) ==
  /\ c \notin monitors
  /\ monitors' = monitors \cup {c}
  /\ terminal' = [terminal EXCEPT ![c] = FALSE]
  /\ IF Cardinality(monitors) * StaggerMs > 0
     THEN /\ pendingSub' = [pendingSub EXCEPT ![c] =
               [service |-> s, handler |-> h,
                due |-> now + Cardinality(monitors) * StaggerMs]]
          /\ UNCHANGED <<client, clients, subscribers, messageHandlers,
                         messageListenerAdded, connectLog>>
     ELSE /\ clients' = [clients EXCEPT ![c] = ClientsAfterConnect(c)]
          /\ client' = [client EXCEPT ![c] = Len(clients[c]) + 1]
          /\ connectLog' = Append(connectLog, [channel |-> c, at |-> now])
          /\ SubscribeTail(c, s, h)
          /\ UNCHANGED pendingSub
  /\ UNCHANGED nonMonitorVars
  /\ UNCHANGED <<isConnected, reconnectAttempts, timers, delayLog, lastFanout>>

\* the stagger delay of getOrCreateMonitor is over: monitor.connect(), then
\* the rest of subscribe
SubscribeResume(c) ==
  /\ pendingSub[c] # NoPending
  /\ now >= pendingSub[c].due
  /\ Len(clients[c]) < MaxClients
  /\ connectLog' = Append(connectLog, [channel |-> c, at |-> now])
  /\ pendingSub' = [pendingSub EXCEPT ![c] = NoPending]
  /\ clients' = [clients EXCEPT ![c] = ClientsAfterConnect(c)]
  /\ client' = [client EXCEPT ![c] = Len(clients[c]) + 1]
  /\ terminal' = [terminal EXCEPT ![c] = FALSE]
  /\ SubscribeTail(c, pendingSub[c].service, pendingSub[c].handler)
  /\ UNCHANGED nonMonitorVars
  /\ UNCHANGED <<monitors, isConnected, reconnectAttempts, timers, delayLog,
                 lastFanout>>

\* getOrCreateMonitor, the channel has a monitor: whether it calls connect()
NeedsConnect(c) == ~isConnected[c]

SubscribeExisting(c, s, h) ==
  /\ c \in monitors
  /\ IF NeedsConnect(c)
     THEN /\ Len(clients[c]) < MaxClients
          /\ clients' = [clients EXCEPT ![c] = ClientsAfterConnect(c)]
          /\ client' = [client EXCEPT ![c] = Len(clients[c]) + 1]
     ELSE UNCHANGED <<client, clients>>
  /\ terminal' = [terminal EXCEPT ![c] = FALSE]
  /\ SubscribeTail(c, s, h)
  /\ UNCHANGED nonMonitorVars
  /\ UNCHANGED connectLog
  /\ UNCHANGED <<monitors, isConnected, reconnectAttempts, timers, pendingSub,
                 delayLog, lastFanout>>

\* SharedChatMonitor.unsubscribe
UnsubscribeMonitor(c, s) ==
  /\ subscribers' = [subscribers EXCEPT ![c] = @ \ {s}]
  /\ IF subscribers[c] \ {s} = {}
     THEN /\ clients' = [clients EXCEPT ![c] = ClientsAfterDisconnect(c)]
          /\ client' = [client EXCEPT ![c] = 0]
          /\ isConnected' = [isConnected EXCEPT ![c] = FALSE]
     ELSE UNCHANGED <<clients, client, isConnected>>
  /\ UNCHANGED connectLog
  /\ UNCHANGED <<monitors, reconnectAttempts, messageHandlers,
                 messageListenerAdded, timers, pendingSub, delayLog, terminal,
                 lastFanout>>

\* ChatMonitorManager.unsubscribe -> SharedChatMonitor.unsubscribe
Unsubscribe(c, s) ==
  /\ c \in monitors
  /\ UnsubscribeMonitor(c, s)
  /\ UNCHANGED nonMonitorVars

(***************************************************************************)
(* Events of the transport clients, with the listeners connect() attached  *)
(***************************************************************************)
EvConnected(c, i) ==
  /\ i \in 1..Len(clients[c])
  /\ clients[c][i] = "connecting"
  /\ clients' = [clients EXCEPT ![c][i] = "connected"]
  /\ isConnected' = [isConnected EXCEPT ![c] = TRUE]
  /\ reconnectAttempts' = [reconnectAttempts EXCEPT ![c] = 0]
  /\ delayLog' = [delayLog EXCEPT ![c] = <<>>]
  /\ UNCHANGED nonMonitorVars
  /\ UNCHANGED connectLog
  /\ UNCHANGED <<monitors, client, subscribers, messageHandlers,
                 messageListenerAdded, timers, pendingSub, terminal, lastFanout>>

EvDisconnected(c, i) ==
  /\ i \in 1..Len(clients[c])
  /\ IsLive(clients[c][i])
  /\ clients' = [clients EXCEPT ![c][i] = "closed"]
  /\ isConnected' = [isConnected EXCEPT ![c] = FALSE]
  /\ AttemptReconnect(c)
  /\ UNCHANGED nonMonitorVars
  /\ UNCHANGED connectLog
  /\ UNCHANGED <<monitors, client, subscribers, messageHandlers,
                 messageListenerAdded, pendingSub, lastFanout>>

EvError(c, i) ==
  /\ i \in 1..Len(clients[c])
  /\ IsLive(clients[c][i])
  /\ AttemptReconnect(c)
  /\ UNCHANGED nonMonitorVars
  /\ UNCHANGED connectLog
  /\ UNCHANGED <<monitors, client, isConnected, subscribers, messageHandlers,
                 messageListenerAdded, clients, pendingSub, lastFanout>>

\* the reconnect timer set by attemptReconnect fires: this.connect()
TimerFire(c) ==
  /\ timers[c] > 0
  /\ Len(clients[c]) < MaxClients
  /\ timers' = [timers EXCEPT ![c] = @ - 1]
  /\ clients' = [clients EXCEPT ![c] = ClientsAfterConnect(c)]
  /\ client' = [client EXCEPT ![c] = Len(clients[c]) + 1]
  /\ UNCHANGED nonMonitorVars
  /\ UNCHANGED connectLog
  /\ UNCHANGED <<monitors, isConnected, subscribers, reconnectAttempts,
                 messageHandlers, messageListenerAdded, pendingSub, delayLog,
                 terminal, lastFanout>>

(***************************************************************************)
(* The manager's message listener: the fan-out loop                        *)
(***************************************************************************)
\* an iteration without the try/catch: a throwing handler ends the loop
ContinuesAfterUncaught(h, throwers) == h \notin throwers

\* one iteration: try { handler(message) } catch (error) { console.error }
\* TRUE when the loop goes on to the next handler
ContinuesAfter(h, throwers) == TRUE

\* the loop run from the last handler to the first
FanOutFromLast(hs, i, throwers) ==
  [invoked |-> [k \in 1..(Len(hs) - i + 1) |-> hs[Len(hs) + 1 - k]],
   propagated |-> FALSE]

RECURSIVE FanOutFrom(_, _, _)
FanOutFrom(hs, i, throwers) ==
  IF i > Len(hs) THEN [invoked |-> <<>>, propagated |-> FALSE]
  ELSE IF ContinuesAfter(hs[i], throwers)
       THEN LET rest == FanOutFrom(hs, i + 1, throwers)
            IN  [invoked |-> <<hs[i]>> \o rest.invoked,
                 propagated |-> rest.propagated]
       ELSE [invoked |-> <<hs[i]>>, propagated |-> TRUE]

\* client i emits 'message': the monitor re-emits it and the listener runs
Deliver(c, i, m, throwers) ==
  /\ i \in 1..Len(clients[c])
  /\ clients[c][i] = "connected"
  /\ messageListenerAdded[c]
  /\ LET out == FanOutFrom(messageHandlers[c], 1, throwers)
     IN  lastFanout' = [lastFanout EXCEPT ![c] =
           [msg |-> m, registered |-> messageHandlers[c],
            invoked |-> out.invoked, threw |-> throwers,
            threwBefore |-> lastFanout[c].threw \cup lastFanout[c].threwBefore,
            propagated |-> out.propagated]]
  /\ UNCHANGED connectLog
  /\ UNCHANGED <<monitors, client, isConnected, subscribers, reconnectAttempts,
                 messageHandlers, messageListenerAdded, clients, timers,
                 pendingSub, delayLog, terminal>>

EvMessage(c, i, m, throwers) ==
  /\ Deliver(c, i, m, throwers)
  /\ UNCHANGED nonMonitorVars

\* the same step, with the emission and the handler calls written down
EvMessageRecorded(c, i, m, throwers) ==
  /\ Len(emitted[c]) < MaxLog
  /\ Deliver(c, i, m, throwers)
  /\ emitted' = [emitted EXCEPT ![c] = Append(@, m)]
  /\ LET called == FanOutFrom(messageHandlers[c], 1, throwers).invoked
     IN  invocations' = [invocations EXCEPT ![c] =
           @ \o [k \in 1..Len(called) |->
                   [n |-> Len(emitted[c]) + 1, service |-> called[k][1],
                    msg |-> m]]]
  /\ UNCHANGED <<ttsVars, pollVars, modVars, roomVars, watchVars>>

\* the clients of the channel that are in the room
ConnectedClients(c) == {i \in 1..Len(clients[c]) : clients[c][i] = "connected"}

\* a chat message is posted in the room of the channel: every connected
\* client the monitor created emits it, the oldest first, and each emission
\* runs the listener
InboundMessage(c, m) ==
  LET n == Cardinality(ConnectedClients(c))
      hs == messageHandlers[c]
  IN  /\ n > 0
      /\ Len(emitted[c]) + n <= MaxLog
      /\ Deliver(c, CHOOSE i \in ConnectedClients(c) : TRUE, m, {})
      /\ emitted' = [emitted EXCEPT ![c] = @ \o [j \in 1..n |-> m]]
      /\ invocations' = [invocations EXCEPT ![c] =
            @ \o [p \in 1..(n * Len(hs)) |->
                    [n |-> Len(emitted[c]) + ((p - 1) \div Len(hs)) + 1,
                     service |-> hs[((p - 1) % Len(hs)) + 1][1],
                     msg |-> m]]]
      /\ UNCHANGED <<ttsVars, pollVars, modVars, roomVars, watchVars>>

(***************************************************************************)
(* IntegratedTTSService: chat messages, as handleChatMessage reads them    *)
(***************************************************************************)
\* wallet addresses of chat authors
Authors == {"AAAAwallet", "Addr1"}
\* the addresses that match /^[1-9A-HJ-NP-Za-km-z]{32,44}$/
SolAddresses == {"AAAAwallet"}
\* donation amounts, in hundredths of SOL
Amounts == {1, 2}
\* message texts; "" is an absent field
Texts == {"gg", "donated 1 sol gg", "spam"}
\* the streamer's banned words (automod settings)
BannedWords == {"spam"}

\* a message as the chat transport emits it: userAddress and message
TransportMsg(a, t) ==
  [userAddress |-> a, user |-> "", walletAddress |-> "", text |-> "", message |-> t]
\* a message carrying user and text
UserMsg(a, t) ==
  [userAddress |-> "", user |-> a, walletAddress |-> "", text |-> t, message |-> ""]
\* a message carrying walletAddress and text
WalletMsg(a, t) ==
  [userAddress |-> "", user |-> "", walletAddress |-> a, text |-> t, message |-> ""]

ChatMessages ==
  {TransportMsg(a, t) : a \in Authors, t \in Texts}
    \cup {UserMsg(a, t) : a \in Authors, t \in Texts}
    \cup {WalletMsg(a, t) : a \in Authors, t \in Texts}

\* JavaScript's a || b on strings
OrElse(a, b) == IF a # "" THEN a ELSE b

NoData == [walletAddress |-> "", amount |-> 0, message |-> "", originalMessage |-> ""]
NoDonor == [timestamp |-> 0, amount |-> 0]

\* String.prototype.includes of a banned word, lower-cased
ContainsWord(t, w) ==
  \/ t = w
  \/ t = "spam" /\ w = "spam"

\* String.prototype.length
TextLength(t) ==
  CASE t = "gg" -> 2
    [] t = "donated 1 sol gg" -> 16
    [] t = "spam" -> 4
    [] OTHER -> 0

\* isDonationMessage: the patterns are tested on message.text || message.content
IsDonationMessage(msg) == msg.text = "donated 1 sol gg"

\* parseDonationMessage: text with /(donated|sent|purchased|bought).*?sol/i removed
CleanMessage(t) == IF t = "donated 1 sol gg" THEN "gg" ELSE t

\* parseDonationMessage: the amount matched by /(\d+\.?\d*)\s*sol/i
TextAmount(t) == IF t = "donated 1 sol gg" THEN 1 ELSE 0

\* parseRegularMessage
ParseRegularMessage(msg) ==
  LET text == OrElse(msg.text, msg.message)
      walletAddress ==
        OrElse(msg.walletAddress, OrElse(msg.userAddress, msg.user))
  IN  IF text # "" /\ walletAddress # ""
      THEN [walletAddress |-> walletAddress, amount |-> 0, message |-> text,
            originalMessage |-> text]
      ELSE NoData

\* parseDonationMessage
ParseDonationMessage(msg) ==
  LET text == msg.text
      walletAddress == OrElse(msg.walletAddress, msg.user)
      cleanMessage == CleanMessage(text)
  IN  IF cleanMessage # "" /\ walletAddress # ""
      THEN [walletAddress |-> walletAddress, amount |-> TextAmount(text),
            message |-> cleanMessage, originalMessage |-> text]
      ELSE NoData

\* walletAddress.substring(0, 4)
Prefix4(a) == IF a = "AAAAwallet" THEN "AAAA" ELSE a

\* a rendered text: the donor clause (absent when donor = "") and the text
Rendered(donor, amount, text) == [donor |-> donor, amount |-> amount, text |-> text]

\* formatTTSMessage: `${username} donated ${amount} SOL. ${message}`
FormatTTSMessage(walletAddress, amount, message) ==
  IF amount = 0 THEN Rendered("", 0, message)
  ELSE LET username == IF walletAddress \in SolAddresses
                       THEN Prefix4(walletAddress) ELSE walletAddress
       IN  Rendered(username, amount, message)

\* formatRegularTTSMessage
FormatRegularTTSMessage(walletAddress, message) == Rendered("", 0, message)

\* isMessageBanned
IsMessageBanned(t) == \E w \in BannedWords : ContainsWord(t, w)

\* isInCooldown
IsInCooldown ==
  IF cooldowns = 0 THEN FALSE
  ELSE (now - cooldowns) < settings.cooldown_seconds * 1000

\* isRecentDonor: the entry exists and is not older than donorTimeout
DonorEntryValid(a) ==
  /\ recentDonors[a] # NoDonor
  /\ (now - recentDonors[a].timestamp) <= donorTimeout

\* isRecentDonor deletes an entry it finds expired
DonorsAfterLookup(a) ==
  IF recentDonors[a] # NoDonor /\ ~DonorEntryValid(a)
  THEN [recentDonors EXCEPT ![a] = NoDonor]
  ELSE recentDonors

\* cleanupOldDonors with a window of no length
CleanupOldDonorsNoWindow(donors) ==
  [a \in Authors |->
     IF donors[a] # NoDonor /\ now - donors[a].timestamp > 0
     THEN NoDonor ELSE donors[a]]

\* cleanupOldDonors
CleanupOldDonors(donors) ==
  [a \in Authors |->
     IF donors[a] # NoDonor /\ now - donors[a].timestamp > donorTimeout
     THEN NoDonor ELSE donors[a]]

\* processDonationTTS removes nothing from recentDonors
DonorsAfterDonationTTS(donors, a) == donors

RemoveAt(seq, k) == SubSeq(seq, 1, k - 1) \o SubSeq(seq, k + 1, Len(seq))

(***************************************************************************)
(* IntegratedTTSService: operations                                        *)
(***************************************************************************)
\* registerDonation
RegisterDonation(a, amount) ==
  /\ donations < MaxDonations
  /\ donations' = donations + 1
  /\ recentDonors' =
       CleanupOldDonors([recentDonors EXCEPT
                           ![a] = [timestamp |-> now, amount |-> amount]])
  /\ enqSinceDonation' = [enqSinceDonation EXCEPT ![a] = 0]
  /\ UNCHANGED <<now, settings, cooldowns, pending, queue, drains,
                 ttsBroadcasts, nextId>>
  /\ UNCHANGED nonTTSVars

\* the suspended call of processRegularTTS / processDonationTTS
Suspended(kind, data, donationAmount, gated, donorAmount, donorAge) ==
  [kind |-> kind, data |-> data, donationAmount |-> donationAmount,
   gated |-> gated, donorAmount |-> donorAmount, donorAge |-> donorAge]

\* handleChatMessage, up to the first `await isMessageBanned`
HandleChatMessage(msg) ==
  /\ settings.enabled
  /\ Len(pending) < MaxPending
  /\ IF ~settings.donation_gate_enabled
     THEN \* every message is read
          /\ ParseRegularMessage(msg) # NoData
          /\ settings.auto_tts_enabled
          /\ pending' = Append(pending,
               Suspended("regular", ParseRegularMessage(msg), 0, FALSE, 0, 0))
          /\ UNCHANGED recentDonors
     ELSE LET userAddress == OrElse(msg.userAddress, msg.user)
          IN  IF userAddress # "" /\ DonorEntryValid(userAddress)
              THEN \* recent donor: the entry is used up, the message is regular
                   /\ ParseRegularMessage(msg) # NoData
                   /\ recentDonors' = [recentDonors EXCEPT ![userAddress] = NoDonor]
                   /\ IF settings.auto_tts_enabled
                      THEN pending' = Append(pending,
                             Suspended("regular", ParseRegularMessage(msg), 0,
                                       TRUE, recentDonors[userAddress].amount,
                                       now - recentDonors[userAddress].timestamp))
                      ELSE UNCHANGED pending
              ELSE LET donors == IF userAddress # ""
                                 THEN DonorsAfterLookup(userAddress)
                                 ELSE recentDonors
                       data == ParseDonationMessage(msg)
                   IN  IF /\ IsDonationMessage(msg)
                          /\ data # NoData
                          /\ donors[data.walletAddress] # NoDonor
                       THEN /\ recentDonors' =
                                 DonorsAfterDonationTTS(donors, data.walletAddress)
                            /\ pending' = Append(pending,
                                 Suspended("donation", data,
                                           donors[data.walletAddress].amount, TRUE,
                                           donors[data.walletAddress].amount,
                                           now - donors[data.walletAddress].timestamp))
                       ELSE /\ recentDonors' = donors
                            /\ recentDonors' # recentDonors
                            /\ UNCHANGED pending
  /\ UNCHANGED <<now, settings, cooldowns, queue, drains, ttsBroadcasts, nextId,
                 donations, enqSinceDonation>>
  /\ UNCHANGED nonTTSVars

\* the request built by processRegularTTS / processDonationTTS
TTSRequest(p) ==
  [id |-> nextId,
   message |-> IF p.kind = "donation"
               THEN FormatTTSMessage(p.data.walletAddress, p.donationAmount,
                                     p.data.message)
               ELSE FormatRegularTTSMessage(p.data.walletAddress, p.data.message),
   originalMessage |-> p.data.message,
   walletAddress |-> p.data.walletAddress,
   amount |-> IF p.kind = "donation" THEN p.donationAmount ELSE 0,
   type |-> p.kind,
   \* for the properties: whether the donation gate let the message in, and
   \* the amount and the age of the donor entry it was matched with
   gated |-> p.gated,
   donorAmount |-> p.donorAmount,
   donorAge |-> p.donorAge]

\* whether the message is dropped after the banned-word check
Dropped(p) ==
  \/ IsMessageBanned(p.data.message)
  \/ IsInCooldown
  \/ TextLength(p.data.message) > settings.max_message_length

\* processRegularTTS / processDonationTTS with a processQueue that returns
\* while an earlier entry is still being rendered, and is not called again
ResumeAfterBanCheckBusy(k) ==
  /\ k \in 1..Len(pending)
  /\ pending' = RemoveAt(pending, k)
  /\ IF Dropped(pending[k])
     THEN UNCHANGED <<cooldowns, queue, drains, nextId, enqSinceDonation>>
     ELSE LET req == TTSRequest(pending[k])
              pushed == Append(queue, req)
          IN  /\ nextId <= MaxRequests
              /\ nextId' = nextId + 1
              /\ cooldowns' = now
              /\ enqSinceDonation' =
                   IF req.gated
                   THEN [enqSinceDonation EXCEPT ![req.walletAddress] = @ + 1]
                   ELSE enqSinceDonation
              /\ IF drains # <<>>
                 THEN queue' = pushed /\ UNCHANGED drains
                 ELSE /\ queue' = Tail(pushed)
                      /\ drains' = Append(drains, [req |-> Head(pushed),
                                                    startedAt |-> now])
  /\ UNCHANGED <<now, settings, recentDonors, ttsBroadcasts, donations>>
  /\ UNCHANGED nonTTSVars

\* processRegularTTS / processDonationTTS after `await isMessageBanned`:
\* the filters, the push, the cooldown update and processQueue up to its await
ResumeAfterBanCheck(k) ==
  /\ k \in 1..Len(pending)
  /\ pending' = RemoveAt(pending, k)
  /\ IF Dropped(pending[k])
     THEN UNCHANGED <<cooldowns, queue, drains, nextId, enqSinceDonation>>
     ELSE LET req == TTSRequest(pending[k])
              pushed == Append(queue, req)
          IN  /\ nextId <= MaxRequests
              /\ nextId' = nextId + 1
              /\ cooldowns' = now
              /\ enqSinceDonation' =
                   IF req.gated
                   THEN [enqSinceDonation EXCEPT ![req.walletAddress] = @ + 1]
                   ELSE enqSinceDonation
              \* processQueue: shift, then await simulateTTSProcessing
              /\ queue' = Tail(pushed)
              /\ drains' = Append(drains, [req |-> Head(pushed), startedAt |-> now])
  /\ UNCHANGED <<now, settings, recentDonors, ttsBroadcasts, donations>>
  /\ UNCHANGED nonTTSVars

\* simulateTTSProcessing after its 1000 ms timer and the database calls (of
\* any latency, failed or not): broadcastTTSMessage
BroadcastTTS(k) ==
  /\ k \in 1..Len(drains)
  /\ now >= drains[k].startedAt + RenderMs
  /\ ttsBroadcasts' = Append(ttsBroadcasts, [req |-> drains[k].req, at |-> now])
  /\ drains' = RemoveAt(drains, k)
  /\ UNCHANGED <<now, settings, recentDonors, cooldowns, pending, queue, nextId,
                 donations, enqSinceDonation>>
  /\ UNCHANGED nonTTSVars

\* time passes
AdvanceTime ==
  /\ now < MaxTicks * TickMs
  /\ now' = now + TickMs
  /\ UNCHANGED <<settings, recentDonors, cooldowns, pending, queue, drains,
                 ttsBroadcasts, nextId, donations, enqSinceDonation>>
  /\ UNCHANGED nonTTSVars

\* time passes, also past the end of the run while the 1000 ms timer of
\* simulateTTSProcessing is pending for an entry
DrainClock ==
  /\ \/ now < MaxTicks * TickMs
     \/ \E k \in 1..Len(drains) : now < drains[k].startedAt + RenderMs
  /\ now' = now + TickMs
  /\ UNCHANGED <<settings, recentDonors, cooldowns, pending, queue, drains,
                 ttsBroadcasts, nextId, donations, enqSinceDonation>>
  /\ UNCHANGED nonTTSVars

\* time passes: the whole donor window and one tick more
WindowPasses ==
  /\ now < MaxTicks * TickMs
  /\ now' = now + donorTimeout + TickMs
  /\ UNCHANGED <<settings, recentDonors, cooldowns, pending, queue, drains,
                 ttsBroadcasts, nextId, donations, enqSinceDonation>>
  /\ UNCHANGED nonTTSVars

\* cooldown_seconds values of the runs (validateSettings allows 0..3600)
CooldownChoices == {0, 1}

\* getDefaultSettings, with the cooldown and the donation gate of the run
InitialSettings ==
  {[enabled |-> TRUE, auto_tts_enabled |-> TRUE, donation_gate_enabled |-> g,
    cooldown_seconds |-> cd, max_message_length |-> DefaultMaxMessageLength] :
     g \in BOOLEAN, cd \in CooldownChoices}

InitTTS ==
  /\ now = TickMs
  /\ settings \in InitialSettings
  /\ recentDonors = [a \in Authors |-> NoDonor]
  /\ cooldowns = 0
  /\ pending = <<>>
  /\ queue = <<>>
  /\ drains = <<>>
  /\ ttsBroadcasts = <<>>
  /\ nextId = 1
  /\ donations = 0
  /\ enqSinceDonation = [a \in Authors |-> 0]

NextTTS ==
  \/ \E a \in Authors, amount \in Amounts : RegisterDonation(a, amount)
  \/ \E msg \in ChatMessages : HandleChatMessage(msg)
  \/ \E k \in 1..MaxPending : ResumeAfterBanCheck(k)
  \/ \E k \in 1..MaxRequests : BroadcastTTS(k)
  \/ AdvanceTime

(***************************************************************************)
(* PollManager of one streamer (IntegratedPollService.js)                  *)
(***************************************************************************)
Voters == {"u1", "u2"}

\* the numbers a viewer may send as a vote
Choices == {1, 2, 3}

\* durationSec of the polls of the runs
Durations == {1, 2}

\* String.prototype.trim of an option label
Trim(label) == IF label = " " THEN "" ELSE label

\* the optionsObj arguments of the runs; the last one keeps a single option
OptionsObjs ==
  { (1 :> "A" @@ 2 :> "B"),
    (1 :> "A" @@ 2 :> "B" @@ 3 :> "C"),
    (1 :> "A" @@ 2 :> " ") }

\* the value the callers of endPoll pass as pollId; start() sets no id
PollIds == {"undefined", "p1"}
PollIdOf(poll) == "undefined"

NoPoll == [exists |-> FALSE]
HasPoll == current # NoPoll

NoVote ==
  [called |-> FALSE, voter |-> "", choice |-> 0, at |-> 0, hadPoll |-> FALSE,
   closedBefore |-> FALSE, validChoice |-> FALSE, prev |-> 0,
   countsBefore |-> <<>>, accepted |-> FALSE, createdAt |-> 0,
   durationSec |-> 0]

\* the keys start() keeps: those with a non-empty trimmed label
StartOptions(optionsObj) ==
  {k \in DOMAIN optionsObj : Trim(optionsObj[k]) # ""}

\* the record start() builds; votes[u] = 0 stands for no entry of u
Start(optionsObj, durationSec) ==
  [exists |-> TRUE,
   options |-> [k \in StartOptions(optionsObj) |-> Trim(optionsObj[k])],
   counts |-> [k \in StartOptions(optionsObj) |-> 0],
   votes |-> [u \in Voters |-> 0],
   endsAt |-> now + durationSec * 1000,
   createdAt |-> now,
   closed |-> FALSE,
   \* for the properties: the duration the poll was started with
   durationSec |-> durationSec]

\* isActive() under a reading that leaves closing to the tick
IsActiveUntilTick == HasPoll /\ ~current.closed

\* isActive() with the closed flag and the end time joined by "or"
IsActiveFlagOrTime == HasPoll /\ (~current.closed \/ now < current.endsAt)

IsActive == HasPoll /\ ~current.closed /\ now < current.endsAt

Max(a, b) == IF a >= b THEN a ELSE b

\* vote() under a reading that never takes the previous vote back
CountsAfterVoteKeepPrev(counts, prev, k) == [counts EXCEPT ![k] = @ + 1]

\* vote() under a reading that takes the previous vote back and counts no
\* new one
CountsAfterVoteTakeOnly(counts, prev, k) ==
  IF prev # 0 /\ prev \in DOMAIN counts
  THEN [counts EXCEPT ![prev] = Max(0, @ - 1)]
  ELSE counts

\* the tallies after a vote for k by a voter whose previous vote was prev
CountsAfterVote(counts, prev, k) ==
  LET taken == IF prev # 0 /\ prev \in DOMAIN counts
               THEN [counts EXCEPT ![prev] = Max(0, @ - 1)]
               ELSE counts
  IN [taken EXCEPT ![k] = @ + 1]

\* createPoll without its test of isActive()
CreatePollUnguarded(optionsObj, durationSec) ==
  /\ Cardinality(StartOptions(optionsObj)) >= 2
  /\ current' = Start(optionsObj, durationSec)
  /\ tickDue' = now + PollTickMs
  /\ lastVote' = NoVote
  /\ lastStart' = "started"
  /\ UNCHANGED <<whitelist, now>>
  /\ UNCHANGED nonPollVars

\* createPoll: refused while a poll is active; start() throws with fewer
\* than two options and then changes nothing
CreatePoll(optionsObj, durationSec) ==
  /\ IF IsActive
     THEN /\ lastStart' = "refused"
          /\ UNCHANGED <<current, tickDue, lastVote>>
     ELSE /\ Cardinality(StartOptions(optionsObj)) >= 2
          /\ current' = Start(optionsObj, durationSec)
          /\ tickDue' = now + PollTickMs
          /\ lastVote' = NoVote
          /\ lastStart' = "started"
  /\ UNCHANGED <<whitelist, now>>
  /\ UNCHANGED nonPollVars

\* the setInterval callback of startTick
Tick ==
  /\ tickDue # 0
  /\ now >= tickDue
  /\ current' = IF HasPoll /\ now >= current.endsAt /\ ~current.closed
                THEN [current EXCEPT !.closed = TRUE]
                ELSE current
  /\ tickDue' = now + PollTickMs
  /\ UNCHANGED <<lastVote, lastStart, whitelist, now>>
  /\ UNCHANGED nonPollVars

\* vote(user, choiceNum)
Vote(u, k) ==
  LET valid == IsActive /\ k \in DOMAIN current.options
      prev == IF valid THEN current.votes[u] ELSE 0
  IN /\ lastVote' =
          [called |-> TRUE, voter |-> u, choice |-> k, at |-> now,
           hadPoll |-> HasPoll,
           closedBefore |-> HasPoll /\ current.closed,
           validChoice |-> HasPoll /\ k \in DOMAIN current.options,
           prev |-> prev,
           countsBefore |-> IF HasPoll THEN current.counts ELSE <<>>,
           accepted |-> valid,
           createdAt |-> IF HasPoll THEN current.createdAt ELSE 0,
           durationSec |-> IF HasPoll THEN current.durationSec ELSE 0]
     /\ current' = IF valid /\ prev # k
                   THEN [current EXCEPT
                           !.votes[u] = k,
                           !.counts = CountsAfterVote(current.counts, prev, k)]
                   ELSE current
     /\ UNCHANGED <<tickDue, lastStart, whitelist, now>>
     /\ UNCHANGED nonPollVars

\* endPoll of a poll that is not closed yet: closed = true, then stop()
EndPoll(pollId) ==
  /\ HasPoll
  /\ PollIdOf(current) = pollId
  /\ ~current.closed
  /\ current' = NoPoll
  /\ tickDue' = 0
  /\ lastVote' = NoVote
  /\ UNCHANGED <<lastStart, whitelist, now>>
  /\ UNCHANGED nonPollVars

(***************************************************************************)
(* IntegratedPollService: the whitelist and the chat commands              *)
(***************************************************************************)
\* usernames of chat senders; the last one is no Solana address
PollSenders == {"SolA", "SolB", "viewer"}

\* isSolAddress
IsSolAddress(str) == str \in {"SolA", "SolB"}

\* isSenderPrivileged
IsSenderPrivileged(username) == IsSolAddress(username) /\ username \in whitelist

\* the /whitelist commands that change the list
WhitelistCmds == {"me", "add", "remove"}

\* the whitelist after a /whitelist command that passed the privilege test
WhitelistAfter(sender, cmd, addr) ==
  CASE cmd = "me" -> IF IsSolAddress(sender) THEN whitelist \cup {sender}
                     ELSE whitelist
    [] cmd = "add" -> IF IsSolAddress(addr) THEN whitelist \cup {addr}
                      ELSE whitelist
    [] cmd = "remove" -> whitelist \ {addr}
    [] OTHER -> whitelist

\* handleWhitelistCommand: any sender is let through while the list is empty
HandleWhitelistCommand(sender, cmd, addr) ==
  /\ (whitelist = {} \/ IsSenderPrivileged(sender))
  /\ whitelist' = WhitelistAfter(sender, cmd, addr)
  /\ UNCHANGED <<current, tickDue, lastVote, lastStart, now>>
  /\ UNCHANGED nonPollVars

\* parsePollCommand: the duration is kept within 5..300 seconds
ChatDuration(d) == Max(5, IF d <= 300 THEN d ELSE 300)

\* the /poll branch of handleChatMessage
PollCommand(sender, optionsObj, d) ==
  /\ IsSenderPrivileged(sender)
  /\ Cardinality(StartOptions(optionsObj)) >= 2
  /\ IF IsActive
     THEN /\ lastStart' = "refused"
          /\ UNCHANGED <<current, tickDue, lastVote>>
     ELSE /\ current' = Start(optionsObj, ChatDuration(d))
          /\ tickDue' = now + PollTickMs
          /\ lastVote' = NoVote
          /\ lastStart' = "started"
  /\ UNCHANGED <<whitelist, now>>
  /\ UNCHANGED nonPollVars

\* addToWhitelist, called by the streamer's dashboard
AddToWhitelist(address) ==
  /\ IsSolAddress(address)
  /\ address \notin whitelist
  /\ whitelist' = whitelist \cup {address}
  /\ UNCHANGED <<current, tickDue, lastVote, lastStart, now>>
  /\ UNCHANGED nonPollVars

\* removeFromWhitelist, called by the streamer's dashboard
RemoveFromWhitelist(address) ==
  /\ address \in whitelist
  /\ whitelist' = whitelist \ {address}
  /\ UNCHANGED <<current, tickDue, lastVote, lastStart, now>>
  /\ UNCHANGED nonPollVars

NoWinner == [num |-> 0, label |-> "", count |-> 0]

\* the loop of winner() over the options in key order
RECURSIVE WinnerFrom(_, _)
WinnerFrom(keys, best) ==
  IF keys = {} THEN best
  ELSE LET k == CHOOSE x \in keys : \A y \in keys : x <= y
           c == current.counts[k]
       IN WinnerFrom(keys \ {k},
                     IF best = NoWinner \/ c > best.count
                     THEN [num |-> k, label |-> current.options[k], count |-> c]
                     ELSE best)

\* winner(); NoWinner stands for null
Winner == IF ~HasPoll THEN NoWinner ELSE WinnerFrom(DOMAIN current.options, NoWinner)

\* Math.max over the tallies
MaxVotes ==
  CHOOSE m \in {current.counts[k] : k \in DOMAIN current.counts} : \A n \in {current.counts[k] : k \in DOMAIN current.counts} : m >= n

\* getResults(), of a poll that exists; winner 0 stands for null
GetResults ==
  LET winners == {k \in DOMAIN current.options :
                    current.counts[k] = MaxVotes /\ MaxVotes > 0}
      isTie == Cardinality(winners) > 1
  IN [winner |-> IF isTie \/ winners = {} THEN 0
                 ELSE CHOOSE k \in winners : TRUE,
      isTie |-> isTie,
      winners |-> winners]

InitPoll ==
  /\ current = NoPoll
  /\ tickDue = 0
  /\ lastVote = NoVote
  /\ lastStart = "none"
  /\ whitelist = {}

NextPoll ==
  \/ \E o \in OptionsObjs, d \in Durations : CreatePoll(o, d)
  \/ \E u \in Voters, k \in Choices : Vote(u, k)
  \/ Tick
  \/ \E pollId \in PollIds : EndPoll(pollId)
  \/ AdvanceTime

(***************************************************************************)
(* AutomodService of one streamer: banning the author of a message         *)
(***************************************************************************)
ModUsers == {"u1", "u2"}

\* message texts: one without and one with a word of the banned lists
ModTexts == {"hello", "slur"}

\* testAutomodRules: the message contains a word of the slur list, which
\* the default settings merged into every read always switch on
Violates(t) == t = "slur"

\* settings objects; a key that is absent reads as FALSE or the empty list
LoadedSettings == [enabled |-> TRUE, bannedUsers |-> {}, banned_users |-> {}]
OnlyBannedUsers(list) ==
  [enabled |-> FALSE, bannedUsers |-> {}, banned_users |-> list]

\* the row of the database: whether it holds automodWalletAddress, and its
\* banned_users list
LoadedRow == [automodWalletAddress |-> TRUE, banned_users |-> {}]

ModTask(u, t, pc, list) == [user |-> u, text |-> t, pc |-> pc, list |-> list]

\* takeModerationAction: the user is found in the in-memory bannedUsers
AlreadyBanned(u) == u \in modSettings.bannedUsers

StepTo(k, pc) == [modTasks EXCEPT ![k].pc = pc]

\* handleChatMessage, up to `await this.testAutomodRules`
ModHandleChatMessage(u, t) ==
  /\ modCount < MaxModMessages
  /\ Len(modTasks) < MaxModTasks
  /\ modSettings.enabled
  /\ modTasks' = Append(modTasks, ModTask(u, t, "test", {}))
  /\ modCount' = modCount + 1
  /\ UNCHANGED <<modSettings, modDb, banCalls, banOk>>
  /\ UNCHANGED modBans
  /\ UNCHANGED nonModVars

\* testAutomodRules returns; takeModerationAction up to its first await
ModTested(k) ==
  /\ k \in 1..Len(modTasks)
  /\ modTasks[k].pc = "test"
  /\ modTasks' = IF Violates(modTasks[k].text) /\ ~AlreadyBanned(modTasks[k].user)
                 THEN StepTo(k, "ban_read")
                 ELSE RemoveAt(modTasks, k)
  /\ UNCHANGED <<modSettings, modDb, modCount, banCalls, banOk>>
  /\ UNCHANGED modBans
  /\ UNCHANGED nonModVars

\* banUser: the settings read from the database have come back
ModBanRead(k) ==
  /\ k \in 1..Len(modTasks)
  /\ modTasks[k].pc = "ban_read"
  /\ modTasks' = IF modDb.automodWalletAddress
                 THEN StepTo(k, "ban_post")
                 ELSE RemoveAt(modTasks, k)
  /\ UNCHANGED <<modSettings, modDb, modCount, banCalls, banOk>>
  /\ UNCHANGED modBans
  /\ UNCHANGED nonModVars

\* banUser: the auth cookie is there, axios.post sends the ban request
ModBanPost(k) ==
  /\ k \in 1..Len(modTasks)
  /\ modTasks[k].pc = "ban_post"
  /\ banCalls' = [banCalls EXCEPT ![modTasks[k].user] = @ + 1]
  /\ modTasks' = StepTo(k, "ban_wait")
  /\ UNCHANGED <<modSettings, modDb, modCount, banOk>>
  /\ UNCHANGED modBans
  /\ UNCHANGED nonModVars

\* banUser: the response; on success takeModerationAction calls addBannedUser
ModBanResponse(k, ok) ==
  /\ k \in 1..Len(modTasks)
  /\ modTasks[k].pc = "ban_wait"
  /\ IF ok
     THEN /\ banOk' = [banOk EXCEPT ![modTasks[k].user] = @ + 1]
          \* updateStats(streamerId, 'ban')
          /\ modBans' = modBans + 1
          /\ modTasks' = StepTo(k, "add_read")
     ELSE /\ modTasks' = RemoveAt(modTasks, k)
          /\ UNCHANGED <<banOk, modBans>>
  /\ UNCHANGED <<modSettings, modDb, modCount, banCalls>>
  /\ UNCHANGED nonModVars

\* addBannedUser: the database answers getAutomodSettings
ModAddRead(k) ==
  /\ k \in 1..Len(modTasks)
  /\ modTasks[k].pc = "add_read"
  /\ modTasks' = [modTasks EXCEPT ![k].pc = "add_got",
                                  ![k].list = modDb.banned_users]
  /\ UNCHANGED <<modSettings, modDb, modCount, banCalls, banOk>>
  /\ UNCHANGED modBans
  /\ UNCHANGED nonModVars

\* addBannedUser: the list is extended and updateAutomodSettings writes
\* { banned_users } as the whole row
ModAddWrite(k) ==
  /\ k \in 1..Len(modTasks)
  /\ modTasks[k].pc = "add_got"
  /\ IF modTasks[k].user \in modTasks[k].list
     THEN /\ modTasks' = RemoveAt(modTasks, k)
          /\ UNCHANGED modDb
     ELSE /\ modDb' = [automodWalletAddress |-> FALSE,
                       banned_users |-> modTasks[k].list \cup {modTasks[k].user}]
          /\ modTasks' = [modTasks EXCEPT ![k].pc = "add_write",
                            ![k].list = @ \cup {modTasks[k].user}]
  /\ UNCHANGED <<modSettings, modCount, banCalls, banOk>>
  /\ UNCHANGED modBans
  /\ UNCHANGED nonModVars

\* updateAutomodSettings: the write is done, the in-memory settings become
\* the object that was written
ModAddDone(k) ==
  /\ k \in 1..Len(modTasks)
  /\ modTasks[k].pc = "add_write"
  /\ modSettings' = OnlyBannedUsers(modTasks[k].list)
  /\ modTasks' = RemoveAt(modTasks, k)
  /\ UNCHANGED <<modDb, modCount, banCalls, banOk>>
  /\ UNCHANGED modBans
  /\ UNCHANGED nonModVars

\* createStreamerAutomod run again for the streamer: the entry of
\* activeStreamers is replaced, with the settings of the database completed
\* by the defaults and with new stats
CreateStreamerAutomod ==
  /\ modSettings' = [enabled |-> TRUE, bannedUsers |-> {},
                     banned_users |-> modDb.banned_users]
  /\ modBans' = 0
  /\ UNCHANGED <<modDb, modTasks, modCount, banCalls, banOk>>
  /\ UNCHANGED nonModVars

InitMod ==
  /\ modSettings = LoadedSettings
  /\ modDb = LoadedRow
  /\ modTasks = <<>>
  /\ modCount = 0
  /\ banCalls = [u \in ModUsers |-> 0]
  /\ banOk = [u \in ModUsers |-> 0]
  /\ modBans = 0

NextMod ==
  \/ \E u \in ModUsers, t \in ModTexts : ModHandleChatMessage(u, t)
  \/ \E k \in 1..MaxModTasks : ModTested(k)
  \/ \E k \in 1..MaxModTasks : ModBanRead(k)
  \/ \E k \in 1..MaxModTasks : ModBanPost(k)
  \/ \E k \in 1..MaxModTasks, ok \in BOOLEAN : ModBanResponse(k, ok)
  \/ \E k \in 1..MaxModTasks : ModAddRead(k)
  \/ \E k \in 1..MaxModTasks : ModAddWrite(k)
  \/ \E k \in 1..MaxModTasks : ModAddDone(k)
  \/ CreateStreamerAutomod

(***************************************************************************)
(* The transport clients the services create themselves, for the room of   *)
(* channel c1                                                              *)
(***************************************************************************)
RoomChannel == "c1"

\* a client that was never created, or was created and not connected yet
OwnClientStates == {"none", "idle"} \cup ClientStates

\* IntegratedPollService.createStreamerPoll: a PumpChatClient of its own
CreateStreamerPoll ==
  /\ pollChat = "none"
  /\ pollChat' = "idle"
  /\ UNCHANGED <<automodClient, automodOwn>>
  /\ UNCHANGED nonRoomVars

\* IntegratedPollService.startStreamer: chatClient.connect(tokenAddress)
StartStreamer ==
  /\ pollChat = "idle"
  /\ pollChat' = "connecting"
  /\ UNCHANGED <<automodClient, automodOwn>>
  /\ UNCHANGED nonRoomVars

\* automodClient.isActive() of the client kept for the streamer
AutomodClientActive ==
  \/ automodClient = "own" /\ IsLive(automodOwn)
  \/ /\ automodClient = "shared"
     /\ client[RoomChannel] # 0
     /\ IsLive(clients[RoomChannel][client[RoomChannel]])

\* summonAutomodWallet: whether the shared monitor's client is taken
SharedMonitorUsable ==
  /\ RoomChannel \in monitors
  /\ client[RoomChannel] # 0
  /\ isConnected[RoomChannel]

\* AutomodService.summonAutomodWallet
SummonAutomodWallet ==
  /\ modDb.automodWalletAddress
  /\ ~AutomodClientActive
  /\ IF SharedMonitorUsable
     THEN /\ automodClient' = "shared"
          /\ UNCHANGED automodOwn
     ELSE /\ automodClient' = "own"
          /\ automodOwn' = "connecting"
  /\ UNCHANGED pollChat
  /\ UNCHANGED nonRoomVars

\* 'connected' of a client a service created
EvServiceConnected(svc) ==
  /\ IF svc = "Poll"
     THEN /\ pollChat = "connecting"
          /\ pollChat' = "connected"
          /\ UNCHANGED <<automodClient, automodOwn>>
     ELSE /\ automodOwn = "connecting"
          /\ automodOwn' = "connected"
          /\ UNCHANGED <<automodClient, pollChat>>
  /\ UNCHANGED nonRoomVars

\* 'disconnected' of a client a service created
EvServiceDisconnected(svc) ==
  /\ IF svc = "Poll"
     THEN /\ IsLive(pollChat)
          /\ pollChat' = "closed"
          /\ UNCHANGED <<automodClient, automodOwn>>
     ELSE /\ IsLive(automodOwn)
          /\ automodOwn' = "closed"
          /\ UNCHANGED <<automodClient, pollChat>>
  /\ UNCHANGED nonRoomVars

InitObs ==
  /\ emitted = [c \in Channels |-> <<>>]
  /\ invocations = [c \in Channels |-> <<>>]

InitRoom ==
  /\ pollChat = "none"
  /\ automodClient = "none"
  /\ automodOwn = "none"

(***************************************************************************)
(* WalletMonitor of one streamer (WalletMonitor.js), with the entry of the *)
(* streamer in IntegratedTTSService.streamers. The model follows the       *)
(* watcher the entry of the streamer refers to.                            *)
(***************************************************************************)
\* the wallet of the streamer, and the argument stopMonitoring gets
WalletAddress == "wallet"
StopArgs == {WalletAddress, "undefined"}

\* the account that lost the most in a transaction
FromAddress == "AAAAwallet"

\* balance deltas of the wallet in a transaction, in hundredths of SOL
TxDeltas == {0, 1}

\* answers of getSignaturesForAddress: a list, a 429, a connection or storage
\* error, any other error
SignatureOutcomes == {"ok", "429", "switch", "other"}

\* answers of getTransaction inside processTransaction: the transaction; null,
\* a timeout or another error; a 429
TransactionOutcomes == {"ok", "none", "429"}

NoCheck == [pc |-> "sigs", sig |-> 0]

\* a transaction reaches the wallet; blockTime is the time of now or a time
\* before the monitoring started
LedgerTx(old, delta) ==
  /\ Len(ledger) < MaxTxs
  /\ ledger' = Append(ledger, [time |-> IF old THEN 0 ELSE now, delta |-> delta])
  /\ UNCHANGED <<streamerUp, monitored, loopOn, lastSignature, startTime,
                 retryCount, nextRetryTime, currentRpcIndex, checks,
                 donationEvents, lastOutcome>>
  /\ UNCHANGED <<monVars, ttsVars, pollVars, modVars, roomVars, obsVars>>

\* checkForNewTransactions: the wallet is skipped while it is in backoff
InBackoff(t) == nextRetryTime # 0 /\ t < nextRetryTime

\* the setInterval callback of startMonitoringLoop, checkInterval after the
\* last one: checkForNewTransactions up to `await getSignaturesForAddress`
WatchTick ==
  LET queries == monitored /\ ~InBackoff(now + checkInterval)
  IN  /\ loopOn
      /\ now < MaxWatchTicks * checkInterval
      /\ queries => Len(checks) < MaxChecks
      /\ now' = now + checkInterval
      /\ checks' = IF queries THEN Append(checks, NoCheck) ELSE checks
      /\ UNCHANGED <<streamerUp, monitored, loopOn, lastSignature, startTime,
                     retryCount, nextRetryTime, currentRpcIndex, ledger,
                     donationEvents, lastOutcome>>
      /\ UNCHANGED <<monVars, ttsStateVars, pollVars, modVars, roomVars, obsVars>>

\* switchToNextRpc
NextRpcIndex == (currentRpcIndex + 1) % RpcEndpoints

\* the backoff delay of the n-th 429 in a row
WatchBackoffDelay(n) == Min(BackoffCapMs, BackoffBaseMs * Pow(2, n - 1))

\* the test of a new signature: not before startTime, at most maxAge old
RecentEnough(tx) == tx.time >= startTime /\ (now - tx.time) <= maxAge

\* checkWalletTransactions: getSignaturesForAddress has answered
SignaturesReturn(k, outcome) ==
  LET latest == Len(ledger)
      process == /\ outcome = "ok"
                 /\ latest # 0
                 /\ lastSignature # 0
                 /\ latest # lastSignature
                 /\ RecentEnough(ledger[latest])
  IN  /\ k \in 1..Len(checks)
      /\ checks[k].pc = "sigs"
      /\ checks' = IF process
                    THEN [checks EXCEPT ![k] = [pc |-> "tx", sig |-> latest]]
                    ELSE RemoveAt(checks, k)
      /\ lastSignature' =
           IF outcome = "ok" /\ latest # 0 /\ ~process THEN latest
           ELSE lastSignature
      /\ retryCount' = CASE outcome = "429" -> retryCount + 1
                          [] outcome = "other" -> 0
                          [] OTHER -> retryCount
      /\ nextRetryTime' =
           CASE outcome = "429" -> now + WatchBackoffDelay(retryCount + 1)
             [] outcome = "other" -> 0
             [] OTHER -> nextRetryTime
      /\ currentRpcIndex' = IF outcome = "switch" THEN NextRpcIndex
                            ELSE currentRpcIndex
      /\ lastOutcome' = outcome
      /\ UNCHANGED <<streamerUp, monitored, loopOn, startTime, ledger,
                     donationEvents>>
      /\ UNCHANGED <<monVars, ttsVars, pollVars, modVars, roomVars, obsVars>>

\* processTransaction has the transaction (or not): the 'donation' event with
\* its two listeners, handleDonation and handleStreamerDonation, and then the
\* update of lastSignature in checkWalletTransactions
TransactionReturn(k, outcome) ==
  LET sig == checks[k].sig
      amount == IF ledger[sig].delta > 0 THEN ledger[sig].delta ELSE 0
      emits == outcome = "ok" /\ amount > 0 /\ amount >= minDonation
  IN  /\ k \in 1..Len(checks)
      /\ checks[k].pc = "tx"
      /\ donationEvents' = IF emits THEN Append(donationEvents, sig)
                           ELSE donationEvents
      /\ IF emits /\ streamerUp
         THEN /\ recentDonors' =
                   CleanupOldDonors([recentDonors EXCEPT ![FromAddress] =
                                       [timestamp |-> now, amount |-> amount]])
              /\ donations' = donations + 2
              /\ enqSinceDonation' = [enqSinceDonation EXCEPT ![FromAddress] = 0]
         ELSE UNCHANGED <<recentDonors, donations, enqSinceDonation>>
      /\ currentRpcIndex' = IF outcome = "429" THEN NextRpcIndex
                            ELSE currentRpcIndex
      /\ lastSignature' = sig
      /\ checks' = RemoveAt(checks, k)
      /\ UNCHANGED <<streamerUp, monitored, loopOn, startTime, retryCount,
                     nextRetryTime, ledger, lastOutcome>>
      /\ UNCHANGED <<now, settings, cooldowns, pending, queue, drains,
                     ttsBroadcasts, nextId>>
      /\ UNCHANGED <<monVars, pollVars, modVars, roomVars, obsVars>>

\* stopMonitoring(walletAddress): monitoredWallets after the call
MonitoredAfterStop(arg) == monitored /\ arg # WalletAddress

\* stopMonitoring(walletAddress): the interval is cleared when no wallet is left
LoopAfterStop(arg) == loopOn /\ MonitoredAfterStop(arg)

\* stopStreamerTTS: stopMonitoring() is called without an argument
StopStreamerTTS ==
  /\ streamerUp
  /\ monitored' = MonitoredAfterStop("undefined")
  /\ loopOn' = LoopAfterStop("undefined")
  /\ IF RoomChannel \in monitors
     THEN /\ UnsubscribeMonitor(RoomChannel, "TTS")
          /\ UNCHANGED <<monitors, reconnectAttempts, messageHandlers,
                         messageListenerAdded, timers, pendingSub, delayLog,
                         terminal, lastFanout>>
     ELSE UNCHANGED monVars
  /\ streamerUp' = FALSE
  /\ recentDonors' = [a \in Authors |-> NoDonor]
  /\ queue' = <<>>
  /\ UNCHANGED <<lastSignature, startTime, retryCount, nextRetryTime,
                 currentRpcIndex, ledger, checks, donationEvents, lastOutcome>>
  /\ UNCHANGED <<now, settings, cooldowns, pending, drains, ttsBroadcasts,
                 nextId, donations, enqSinceDonation>>
  /\ UNCHANGED <<pollVars, modVars, roomVars, obsVars>>

\* createStreamerTTS after `await chatMonitorManager.subscribe`: a new
\* WalletMonitor, the entry of the streamer, startMonitoring
CreateStreamerTTS ==
  /\ ~streamerUp
  /\ streamerUp' = TRUE
  /\ monitored' = TRUE
  /\ loopOn' = TRUE
  /\ lastSignature' = 0
  /\ startTime' = now
  /\ retryCount' = 0
  /\ nextRetryTime' = 0
  /\ currentRpcIndex' = 0
  /\ checks' = <<>>
  /\ lastOutcome' = "none"
  /\ recentDonors' = [a \in Authors |-> NoDonor]
  /\ queue' = <<>>
  /\ UNCHANGED <<ledger, donationEvents>>
  /\ UNCHANGED <<now, settings, cooldowns, pending, drains, ttsBroadcasts,
                 nextId, donations, enqSinceDonation>>
  /\ UNCHANGED <<monVars, pollVars, modVars, roomVars, obsVars>>

InitWatch ==
  /\ streamerUp = TRUE
  /\ monitored = TRUE
  /\ loopOn = TRUE
  /\ lastSignature = 0
  /\ startTime = TickMs
  /\ retryCount = 0
  /\ nextRetryTime = 0
  /\ currentRpcIndex = 0
  /\ ledger = <<>>
  /\ checks = <<>>
  /\ donationEvents = <<>>
  /\ lastOutcome = "none"

(***************************************************************************)
(* Specification of the shared monitor                                     *)
(***************************************************************************)
InitMonitor ==
  /\ monitors = {}
  /\ client = [c \in Channels |-> 0]
  /\ isConnected = [c \in Channels |-> FALSE]
  /\ subscribers = [c \in Channels |-> {}]
  /\ reconnectAttempts = [c \in Channels |-> 0]
  /\ messageHandlers = [c \in Channels |-> <<>>]
  /\ messageListenerAdded = [c \in Channels |-> FALSE]
  /\ clients = [c \in Channels |-> <<>>]
  /\ timers = [c \in Channels |-> 0]
  /\ pendingSub = [c \in Channels |-> NoPending]
  /\ connectLog = <<>>
  /\ delayLog = [c \in Channels |-> <<>>]
  /\ terminal = [c \in Channels |-> FALSE]
  /\ lastFanout = [c \in Channels |-> NoFanout]

Init ==
  /\ InitMonitor /\ InitTTS /\ InitPoll /\ InitMod /\ InitRoom /\ InitObs
  /\ InitWatch

\* the connection state machine of one channel (deliveries change none of it)
ConnChannels == {"c1"}
ConnHandlerIds == {1}

NextConn ==
  \/ \E c \in ConnChannels, s \in Services, h \in ConnHandlerIds :
       SubscribeNew(c, s, h)
  \/ \E c \in ConnChannels, s \in Services, h \in ConnHandlerIds :
       SubscribeExisting(c, s, h)
  \/ \E c \in ConnChannels, s \in Services : Unsubscribe(c, s)
  \/ \E c \in ConnChannels, i \in 1..MaxClients : EvConnected(c, i)
  \/ \E c \in ConnChannels, i \in 1..MaxClients : EvDisconnected(c, i)
  \/ \E c \in ConnChannels, i \in 1..MaxClients : EvError(c, i)
  \/ \E c \in ConnChannels : TimerFire(c)

SpecConn == Init /\ [][NextConn]_vars

\* message delivery on one channel, with subscriptions and disconnects
NextFan ==
  \/ \E c \in ConnChannels, s \in Services, h \in HandlerIds :
       SubscribeNew(c, s, h)
  \/ \E c \in ConnChannels, s \in Services, h \in HandlerIds :
       SubscribeExisting(c, s, h)
  \/ \E c \in ConnChannels, s \in Services : Unsubscribe(c, s)
  \/ \E c \in ConnChannels, i \in 1..MaxClients : EvConnected(c, i)
  \/ \E c \in ConnChannels, i \in 1..MaxClients : EvDisconnected(c, i)
  \/ \E c \in ConnChannels, i \in 1..MaxClients, m \in Msgs :
       \E throwers \in SUBSET Range(messageHandlers[c]) :
         EvMessage(c, i, m, throwers)

SpecFan == Init /\ [][NextFan]_vars

\* message delivery with the deliveries written down
NextOrder ==
  \/ \E c \in ConnChannels, s \in Services, h \in ConnHandlerIds :
       SubscribeNew(c, s, h)
  \/ \E c \in ConnChannels, s \in Services, h \in ConnHandlerIds :
       SubscribeExisting(c, s, h)
  \/ \E c \in ConnChannels, i \in 1..MaxClients : EvConnected(c, i)
  \/ \E c \in ConnChannels, i \in 1..MaxClients, m \in Msgs :
       \E throwers \in SUBSET Range(messageHandlers[c]) :
         EvMessageRecorded(c, i, m, throwers)

SpecOrder == Init /\ [][NextOrder]_vars

\* the messages of the room of one channel, with reconnects
NextInbound ==
  \/ \E c \in ConnChannels, s \in Services, h \in ConnHandlerIds :
       SubscribeNew(c, s, h)
  \/ \E c \in ConnChannels, s \in Services, h \in ConnHandlerIds :
       SubscribeExisting(c, s, h)
  \/ \E c \in ConnChannels, i \in 1..MaxClients : EvConnected(c, i)
  \/ \E c \in ConnChannels, i \in 1..MaxClients : EvDisconnected(c, i)
  \/ \E c \in ConnChannels, i \in 1..MaxClients : EvError(c, i)
  \/ \E c \in ConnChannels : TimerFire(c)
  \/ \E c \in ConnChannels, m \in Msgs : InboundMessage(c, m)

SpecInbound == Init /\ [][NextInbound]_vars

SpecTTS == Init /\ [][NextTTS]_vars

\* the dispatch queue with its timers, for the messages of one author as the
\* chat transport emits them and with the donation gate off: the 1000 ms
\* timer of simulateTTSProcessing fires and the promises of the database
\* calls settle
DrainAuthor == "AAAAwallet"
\* a text that is read and a text with a banned word
DrainTexts == {"gg", "spam"}

InitDrain == Init /\ ~settings.donation_gate_enabled

NextDrain ==
  \/ \E t \in DrainTexts : HandleChatMessage(TransportMsg(DrainAuthor, t))
  \/ \E k \in 1..MaxPending : ResumeAfterBanCheck(k)
  \/ \E k \in 1..MaxRequests : BroadcastTTS(k)
  \/ DrainClock

\* the donation watcher of the streamer and the ledger
NextWatch ==
  \/ \E old \in BOOLEAN, delta \in TxDeltas : LedgerTx(old, delta)
  \/ WatchTick
  \/ \E k \in 1..MaxChecks, outcome \in SignatureOutcomes :
       SignaturesReturn(k, outcome)
  \/ \E k \in 1..MaxChecks, outcome \in TransactionOutcomes :
       TransactionReturn(k, outcome)

SpecWatch == Init /\ [][NextWatch]_vars

\* the watcher, with a ledger that answers, while the streamer's TTS service
\* is stopped and created again
NextTeardown ==
  \/ \E old \in BOOLEAN, delta \in TxDeltas : LedgerTx(old, delta)
  \/ WatchTick
  \/ \E k \in 1..MaxChecks : SignaturesReturn(k, "ok")
  \/ \E k \in 1..MaxChecks : TransactionReturn(k, "ok")
  \/ StopStreamerTTS
  \/ CreateStreamerTTS

SpecTeardown == Init /\ [][NextTeardown]_vars

SpecDrain ==
  /\ InitDrain
  /\ [][NextDrain]_vars
  /\ WF_vars(DrainClock)
  /\ \A k \in 1..MaxRequests : WF_vars(BroadcastTTS(k))

\* the donation gate over a stretch of time longer than the donor window
NextGate ==
  \/ \E a \in Authors, amount \in Amounts : RegisterDonation(a, amount)
  \/ \E msg \in ChatMessages : HandleChatMessage(msg)
  \/ \E k \in 1..MaxPending : ResumeAfterBanCheck(k)
  \/ AdvanceTime
  \/ WindowPasses

SpecGate == Init /\ [][NextGate]_vars

\* the donor entries alone: donations and the passing of time
NextDonors ==
  \/ \E a \in Authors, amount \in Amounts : RegisterDonation(a, amount)
  \/ AdvanceTime
  \/ WindowPasses

SpecDonors == Init /\ [][NextDonors]_vars

\* loading the streamers at startup
\* (AutomodService.setDatabaseServiceAndLoadStreamers): the loop awaits each
\* createStreamerAutomod, and with it the subscribe of the streamer's
\* channel, before it takes the next streamer
LoaderSuspended == \E c \in Channels : pendingSub[c] # NoPending

LoadStreamer(c) ==
  /\ ~LoaderSuspended
  /\ SubscribeNew(c, "Automod", 1)

\* time passes until the stagger delay of the suspended subscribe is over
StaggerWait ==
  /\ \E c \in Channels : pendingSub[c] # NoPending /\ now < pendingSub[c].due
  /\ now' = CHOOSE t \in {pendingSub[c].due : c \in Channels} : t > now
  /\ UNCHANGED <<monVars, ttsStateVars, pollVars, modVars, roomVars, obsVars,
                 watchVars>>

NextStagger ==
  \/ \E c \in Channels : LoadStreamer(c)
  \/ StaggerWait
  \/ \E c \in Channels : SubscribeResume(c)
  \/ \E c \in Channels, i \in 1..MaxClients : EvConnected(c, i)

SpecStagger == Init /\ [][NextStagger]_vars


SpecPoll == Init /\ [][NextPoll]_vars

\* the poll of a channel driven by the dashboard and by chat commands, within
\* the duration of its polls
NextCmd ==
  \/ \E s \in PollSenders, cmd \in WhitelistCmds, a \in PollSenders :
       HandleWhitelistCommand(s, cmd, a)
  \/ \E s \in PollSenders, o \in OptionsObjs, d \in Durations :
       PollCommand(s, o, d)
  \/ \E a \in PollSenders : AddToWhitelist(a)
  \/ \E a \in PollSenders : RemoveFromWhitelist(a)
  \/ \E o \in OptionsObjs, d \in Durations : CreatePoll(o, d)
  \/ \E u \in Voters, k \in Choices : Vote(u, k)
  \/ \E pollId \in PollIds : EndPoll(pollId)

SpecCmd == Init /\ [][NextCmd]_vars

SpecMod == Init /\ [][NextMod]_vars

\* the three services started for the channel, in any order
NextRoom ==
  \/ \E s \in Services, h \in ConnHandlerIds : SubscribeNew(RoomChannel, s, h)
  \/ \E s \in Services, h \in ConnHandlerIds : SubscribeExisting(RoomChannel, s, h)
  \/ \E i \in 1..MaxClients : EvConnected(RoomChannel, i)
  \/ \E i \in 1..MaxClients : EvDisconnected(RoomChannel, i)
  \/ CreateStreamerPoll
  \/ StartStreamer
  \/ SummonAutomodWallet
  \/ \E svc \in {"Poll", "Automod"} : EvServiceConnected(svc)
  \/ \E svc \in {"Poll", "Automod"} : EvServiceDisconnected(svc)

SpecRoom == Init /\ [][NextRoom]_vars

(***************************************************************************)
(* Properties of the shared monitor                                        *)
(***************************************************************************)
\* C1: a channel's monitor has at most one live (connecting or connected)
\* transport client at any instant.
C1_SingleLiveClient ==
  \A c \in Channels : Cardinality(LiveClients(c)) <= 1

\* C2: fan-out isolation. In every run of the message listener each handler
\* registered for the channel is invoked with the message, in registration
\* order, whichever handlers throw; nothing propagates to the transport; a
\* handler that threw on an earlier message is invoked again; and every
\* subscribed service has a registered handler.
C2_FanOutIsolation ==
  \A c \in Channels :
    /\ \A s \in subscribers[c] : HasHandler(messageHandlers[c], s)
    /\ lastFanout[c].msg # "none" =>
         /\ lastFanout[c].invoked = lastFanout[c].registered
         /\ ~lastFanout[c].propagated
         /\ \A h \in lastFanout[c].threwBefore :
              h \in Range(lastFanout[c].invoked)

\* C2 witness: two handlers, the first threw on the previous message and
\* throws again on this one, and the second handler was still invoked.
C2_Witness ==
  \E c \in Channels :
    /\ Len(lastFanout[c].registered) >= 2
    /\ Cardinality(subscribers[c]) >= 2
    /\ lastFanout[c].registered[1] \in lastFanout[c].threw
    /\ lastFanout[c].registered[1] \in lastFanout[c].threwBefore
    /\ lastFanout[c].registered[2] \in Range(lastFanout[c].invoked)

\* the delays min(1000 * 3^(n-1), 120000) for n = 1..5
ExpectedDelays == <<1000, 3000, 9000, 27000, 81000>>

\* C6: within a run of failed reconnects (no 'connected' in between) the
\* n-th scheduled delay is min(1000 * 3^(n-1), 120000) ms, n = 1..5; the
\* delays are non-decreasing and at most 120000 ms.
C6_BackoffSchedule ==
  \A c \in Channels :
    /\ Len(delayLog[c]) <= 5
    /\ delayLog[c] = SubSeq(ExpectedDelays, 1, Len(delayLog[c]))
    /\ \A n \in 1..Len(delayLog[c]) :
         /\ delayLog[c][n] <= 120000
         /\ n > 1 => delayLog[c][n - 1] <= delayLog[c][n]

\* C6 witness: five reconnects scheduled in a row without a 'connected'.
C6_Witness ==
  \E c \in Channels : Len(delayLog[c]) = 5 /\ reconnectAttempts[c] = 5

C12_StaggerOffsets ==
  \A i \in 1..Len(connectLog) :
    connectLog[i].at - TickMs = (i - 1) * StaggerMs

\* C13: subscribe is idempotent per (channel, subscriberName). A subscribe
\* with a name already in the subscriber set leaves the subscriber set, the
\* handler map, the message listener, the clients and the reconnect timers
\* as they were.
C13_DuplicateSubscribeIsNoOp ==
  [][\A c \in Channels, s \in Services, h \in HandlerIds :
       (SubscribeExisting(c, s, h) /\ s \in subscribers[c]) =>
         UNCHANGED <<subscribers, messageHandlers, messageListenerAdded,
                     clients, client, timers>>]_vars

\* C14: unsubscribe removes the name, and when the subscriber set becomes
\* empty the connection is closed and the channel leaves the monitor map.
C14_UnsubscribeDiscards ==
  [][\A c \in Channels, s \in Services :
       (Unsubscribe(c, s) /\ s \in subscribers[c]) =>
         /\ s \notin subscribers'[c]
         /\ subscribers'[c] = {} =>
              /\ client'[c] = 0
              /\ ~isConnected'[c]
              /\ c \notin monitors']_vars

\* C15: reuse discipline across services. No service holds a live transport
\* client of its own to the channel's room: every live socket of the room is
\* a client of the shared monitor.
C15_NoServiceSocket == ~IsLive(pollChat) /\ ~IsLive(automodOwn)

\* the place of a service's handler in the handler map
HandlerPos(c, s) ==
  CHOOSE k \in 1..Len(messageHandlers[c]) : messageHandlers[c][k][1] = s

\* C17: delivery order. The handlers of a channel are called with the
\* messages in the order the transport emitted them, each call carrying the
\* emitted message, and for one message in registration order.
C17_DeliveryOrder ==
  \A c \in Channels :
    /\ \A p \in 1..Len(invocations[c]) :
         /\ invocations[c][p].n \in 1..Len(emitted[c])
         /\ invocations[c][p].msg = emitted[c][invocations[c][p].n]
         /\ HasHandler(messageHandlers[c], invocations[c][p].service)
    /\ \A p, q \in 1..Len(invocations[c]) :
         p < q =>
           \/ invocations[c][p].n < invocations[c][q].n
           \/ /\ invocations[c][p].n = invocations[c][q].n
              /\ HandlerPos(c, invocations[c][p].service)
                   < HandlerPos(c, invocations[c][q].service)

\* two different messages were emitted and both went to two handlers, the
\* first of which threw
C17_Witness ==
  \E c \in Channels :
    /\ Len(emitted[c]) = 2
    /\ emitted[c][1] # emitted[c][2]
    /\ Len(invocations[c]) = 4
    /\ lastFanout[c].threw # {}

\* C31: a chat message of the room is delivered to every subscribed handler
\* once, however many services have subscribed and however often the
\* monitor has reconnected.
C31_DeliveredOnce ==
  [][\A c \in ConnChannels, m \in Msgs :
       InboundMessage(c, m) =>
         \A s \in subscribers[c] :
           Cardinality({p \in (Len(invocations[c]) + 1)..Len(invocations'[c]) :
                          invocations'[c][p].service = s}) = 1]_vars

\* the connection attempts outstanding for a channel: pending reconnect
\* timers and clients still connecting
Attempts(c) ==
  timers[c] + Cardinality({i \in 1..Len(clients[c]) : clients[c][i] = "connecting"})

\* C16: reconnect attempts of a channel are strictly sequential: never two
\* connection attempts outstanding at once.
C16_SequentialAttempts == \A c \in Channels : Attempts(c) <= 1

\* C29: a planned teardown. While a monitor has no subscriber (the last one
\* has unsubscribed and the monitor has disconnected) its client is absent
\* or closed: no reconnect opens a connection until a later subscribe.
C29_TeardownIsQuiet ==
  \A c \in monitors :
    (subscribers[c] = {} /\ pendingSub[c] = NoPending) =>
      (client[c] = 0 \/ ~IsLive(clients[c][client[c]]))

\* C30: only registered handlers are invoked. A delivery calls the handlers
\* of the services subscribed at that moment, and no handler of a service
\* that has unsubscribed.
C30_OnlySubscribedInvoked ==
  [][\A c \in ConnChannels :
       lastFanout'[c] # lastFanout[c] =>
         \A k \in 1..Len(lastFanout'[c].invoked) :
           lastFanout'[c].invoked[k][1] \in subscribers[c]]_vars

(***************************************************************************)
(* Properties of the dispatch queue                                        *)
(***************************************************************************)
\* every request accepted so far: being drained, or already broadcast
AcceptedRequests ==
  {drains[k].req : k \in 1..Len(drains)}
    \cup {ttsBroadcasts[k].req : k \in 1..Len(ttsBroadcasts)}

\* C3: cooldown exclusion. Any two 'tts-message' broadcasts of the channel
\* are at least cooldown_seconds apart.
C3_CooldownExclusion ==
  \A i, j \in 1..Len(ttsBroadcasts) :
    i < j =>
      \/ ttsBroadcasts[j].at - ttsBroadcasts[i].at >= settings.cooldown_seconds * 1000
      \/ ttsBroadcasts[i].at - ttsBroadcasts[j].at >= settings.cooldown_seconds * 1000

\* C4: correlation consumption. With the donation gate enabled, one
\* registerDonation enables at most one enqueue for its author.
C4_OneEnqueuePerDonation ==
  settings.donation_gate_enabled =>
    \A a \in Authors : enqSinceDonation[a] <= 1

\* C5: a message let in by a donation of amt > 0 is queued as a donation
\* entry carrying amt and rendered "{shortId} donated {amt} SOL. {T}", T
\* being the text of the entry.
C5_DonationRendered ==
  \A r \in AcceptedRequests :
    (r.gated /\ r.donorAmount > 0) =>
      /\ r.type = "donation"
      /\ r.amount = r.donorAmount
      /\ r.message =
           [donor |-> IF r.walletAddress \in SolAddresses
                      THEN Prefix4(r.walletAddress) ELSE r.walletAddress,
            amount |-> r.donorAmount,
            text |-> r.originalMessage]

\* C18: with the donation gate enabled, a message is enqueued only when its
\* author has a donor entry no older than donorTimeout; an expired entry
\* enables no enqueue on any message path.
C18_GateNeedsLiveEntry ==
  \A r \in AcceptedRequests :
    r.gated => r.donorAge <= donorTimeout

C28_CooldownRestartsAtDrain ==
  [][cooldowns' # cooldowns => \E k \in 1..MaxRequests : BroadcastTTS(k)]_vars

\* C19: strict FIFO. The entries of the channel are broadcast in the order in
\* which they were accepted.
C19_FifoDrain ==
  \A i, j \in 1..Len(ttsBroadcasts) :
    i < j => ttsBroadcasts[i].req.id < ttsBroadcasts[j].req.id

\* C20: one drain at a time. No two processQueue calls of the channel are
\* between their shift() and the end of simulateTTSProcessing together.
C20_OneDrainAtATime == Len(drains) <= 1

(***************************************************************************)
(* Properties of the poll                                                  *)
(***************************************************************************)
\* the number of voters whose recorded vote is k
TallyOf(k) == Cardinality({u \in Voters : current.votes[u] = k})

\* C8: vote idempotence and last-vote-wins. A vote for a valid option on an
\* active poll succeeds; repeating the voter's choice leaves every tally
\* unchanged; changing it moves exactly one vote from the old option to the
\* new one, and every tally is the number of voters whose vote it is.
C8_VoteIdempotence ==
  /\ HasPoll => \A k \in DOMAIN current.counts : current.counts[k] = TallyOf(k)
  /\ (lastVote.called /\ lastVote.hadPoll /\ lastVote.validChoice
        /\ ~lastVote.closedBefore /\ lastVote.at < current.endsAt) =>
       /\ lastVote.accepted
       /\ current.votes[lastVote.voter] = lastVote.choice
       /\ lastVote.prev = lastVote.choice =>
            current.counts = lastVote.countsBefore
       /\ (lastVote.prev # 0 /\ lastVote.prev # lastVote.choice) =>
            \A k \in DOMAIN current.counts :
              current.counts[k] =
                IF k = lastVote.choice THEN lastVote.countsBefore[k] + 1
                ELSE IF k = lastVote.prev THEN lastVote.countsBefore[k] - 1
                ELSE lastVote.countsBefore[k]

\* a voter has just changed their vote, after another voter voted
C8_Witness ==
  /\ lastVote.called /\ lastVote.accepted
  /\ lastVote.prev # 0 /\ lastVote.prev # lastVote.choice
  /\ \E u \in Voters : u # lastVote.voter /\ current.votes[u] # 0

\* the sum of the tallies of the options in ks
RECURSIVE SumCounts(_)
SumCounts(ks) ==
  IF ks = {} THEN 0
  ELSE LET k == CHOOSE x \in ks : TRUE
       IN current.counts[k] + SumCounts(ks \ {k})

\* C32: poll tally invariant. In every state of a poll the tally of every
\* option is the number of voters whose recorded choice is that option; no
\* tally is negative and the tallies add up to the number of voters that
\* have a recorded choice.
C32_TallyInvariant ==
  HasPoll =>
    /\ \A k \in DOMAIN current.counts :
         /\ current.counts[k] = TallyOf(k)
         /\ current.counts[k] >= 0
    /\ SumCounts(DOMAIN current.counts) =
         Cardinality({u \in Voters : current.votes[u] # 0})

\* every voter has a recorded choice, two options hold one vote each and the
\* last vote moved a voter from one option to another
C32_Witness ==
  /\ HasPoll
  /\ \A u \in Voters : current.votes[u] # 0
  /\ Cardinality({k \in DOMAIN current.counts : current.counts[k] = 1}) = 2
  /\ lastVote.called /\ lastVote.accepted
  /\ lastVote.prev # 0 /\ lastVote.prev # lastVote.choice

\* the number of broadcasts of the entry with the given id
BroadcastsOf(id) ==
  Cardinality({j \in 1..Len(ttsBroadcasts) : ttsBroadcasts[j].req.id = id})

\* C33: every entry accepted into the dispatch queue is eventually popped
\* and broadcast, never more than once, with no further inbound message
\* needed, and the queue is empty again and again.
C33_EveryEntryDrained ==
  /\ \A id \in 1..MaxRequests : (id < nextId) ~> (BroadcastsOf(id) = 1)
  /\ [](\A id \in 1..MaxRequests : BroadcastsOf(id) <= 1)
  /\ []<>(queue = <<>> /\ drains = <<>>)

\* the entries of the run were accepted and each was broadcast; the second
\* was broadcast without a message arriving after it
C33_Witness ==
  /\ nextId = MaxRequests + 1
  /\ \A id \in 1..MaxRequests : BroadcastsOf(id) = 1
  /\ queue = <<>> /\ drains = <<>> /\ pending = <<>>

\* C9: poll closure. A vote for a valid option of the current poll is
\* accepted exactly when less than durationSec seconds have passed since the
\* poll started, whether or not the tick has closed the poll.
C9_PollClosure ==
  (lastVote.called /\ lastVote.hadPoll /\ lastVote.validChoice) =>
    (lastVote.accepted <=>
       lastVote.at - lastVote.createdAt < lastVote.durationSec * 1000)

\* a vote was rejected after the end of a poll the tick had not closed yet,
\* and the poll holds a vote accepted earlier
C9_Witness ==
  /\ lastVote.called /\ lastVote.hadPoll /\ lastVote.validChoice
  /\ ~lastVote.accepted /\ ~lastVote.closedBefore
  /\ \E u \in Voters : current.votes[u] # 0

\* the options that share the highest tally
TopOptions == {k \in DOMAIN current.counts : current.counts[k] = MaxVotes}

\* C10: tie reporting. When a closed poll has two or more options sharing
\* the highest tally, winner() is null and getResults() has winner null and
\* lists every tied option.
C10_TieReportsNoWinner ==
  (HasPoll /\ current.closed /\ MaxVotes > 0 /\ Cardinality(TopOptions) >= 2) =>
    /\ Winner = NoWinner
    /\ GetResults.winner = 0
    /\ GetResults.isTie
    /\ GetResults.winners = TopOptions

\* C21: a rejected vote. vote() returns false and leaves the poll (tallies,
\* votes, closed flag) as it was when there is no poll, the poll is closed or
\* past its end time, or the choice is not an option of the poll.
C21_RejectedVoteChangesNothing ==
  [][\A u \in Voters, k \in Choices :
       (/\ Vote(u, k)
        /\ \/ ~HasPoll
           \/ current.closed
           \/ now >= current.endsAt
           \/ k \notin DOMAIN current.options)
         => (current' = current /\ ~lastVote'.accepted)]_vars

\* a vote for an option of a closed poll that holds votes was rejected
C21_Witness ==
  /\ lastVote.called /\ ~lastVote.accepted
  /\ lastVote.hadPoll /\ lastVote.validChoice /\ lastVote.closedBefore
  /\ HasPoll /\ \E u \in Voters : current.votes[u] # 0

\* C22: one poll at a time. An attempt to start a poll while one is active,
\* through createPoll or the /poll command, is refused and leaves the
\* active poll's options, tallies, votes and end time as they were.
C22_StartRefusedWhileActive ==
  [][(/\ HasPoll /\ ~current.closed /\ now < current.endsAt
      /\ \/ \E o \in OptionsObjs, d \in Durations : CreatePoll(o, d)
         \/ \E s \in PollSenders, o \in OptionsObjs, d \in Durations :
              PollCommand(s, o, d))
       => (current' = current /\ lastStart' = "refused")]_vars

\* a start was refused while the active poll held a vote
C22_Witness ==
  /\ lastStart = "refused"
  /\ HasPoll /\ ~current.closed /\ now < current.endsAt
  /\ \E u \in Voters : current.votes[u] # 0

\* C23: only senders on the whitelist start polls or change the whitelist
\* by chat command, also while the whitelist is empty.
C23_OnlyWhitelistedManage ==
  [][\A s \in PollSenders :
       /\ ((\E cmd \in WhitelistCmds, a \in PollSenders :
               HandleWhitelistCommand(s, cmd, a)) /\ whitelist' # whitelist)
            => s \in whitelist
       /\ ((\E o \in OptionsObjs, d \in Durations : PollCommand(s, o, d))
              /\ lastStart' = "started" /\ current' # current)
            => s \in whitelist]_vars

\* C27: the closed state is transient. The tick that follows the closing of
\* a poll clears it: the channel is back to having no poll.
C27_ClosedPollCleared ==
  [][(HasPoll /\ current.closed /\ Tick) => current' = NoPoll]_vars

\* the poll of the next state is the poll of this state
SamePoll == HasPoll /\ HasPoll' /\ current'.createdAt = current.createdAt

\* C34: every started poll is closed in the end. The tick that runs at or
\* after endsAt sets closed, a closed poll never becomes open again, and a
\* poll that is not closed leaves the channel only through endPoll, which
\* closes it first.
C34_StartedPollIsClosed ==
  /\ [][(Tick /\ HasPoll /\ now >= current.endsAt) => current'.closed]_vars
  /\ [][(SamePoll /\ current.closed) => current'.closed]_vars
  /\ [][(HasPoll /\ ~current.closed /\ ~SamePoll) =>
          \E pollId \in PollIds : EndPoll(pollId)]_vars

(***************************************************************************)
(* Properties of the donation watcher                                      *)
(***************************************************************************)
\* C36: the watcher emits a donation event only for a transaction whose
\* signature differs from the last seen signature of the wallet, whose time
\* is not before the start of the monitoring and whose balance delta for the
\* wallet is positive; the first poll only records the signature; and a
\* signature leads to at most one event.
C36_DonationEvents ==
  /\ [](\A j \in 1..Len(donationEvents) :
          /\ ledger[donationEvents[j]].delta > 0
          /\ ledger[donationEvents[j]].time >= startTime)
  /\ [](\A i, j \in 1..Len(donationEvents) :
          i # j => donationEvents[i] # donationEvents[j])
  /\ [][\A k \in 1..MaxChecks, outcome \in TransactionOutcomes :
          (TransactionReturn(k, outcome) /\ donationEvents' # donationEvents)
            => checks[k].sig # lastSignature]_vars
  /\ [][\A k \in 1..MaxChecks :
          (SignaturesReturn(k, "ok") /\ lastSignature = 0)
            => /\ Len(checks') < Len(checks)
               /\ lastSignature' = Len(ledger)]_vars

\* C37: the backoff is reset by success. After a successful check the retry
\* count is 0 and the next-retry time is cleared, so that the first 429 after
\* a successful check backs off by the base delay; the wallet is not queried
\* before its next-retry time; the delay is never above the cap.
C37_BackoffResetsOnSuccess ==
  /\ [][\A k \in 1..MaxChecks :
          SignaturesReturn(k, "ok") => (retryCount' = 0 /\ nextRetryTime' = 0)]_vars
  /\ [][\A k \in 1..MaxChecks :
          (SignaturesReturn(k, "429") /\ lastOutcome = "ok")
            => nextRetryTime' = now + BackoffBaseMs]_vars
  /\ [][(WatchTick /\ nextRetryTime # 0 /\ now' < nextRetryTime)
          => checks' = checks]_vars
  /\ [][\A k \in 1..MaxChecks :
          SignaturesReturn(k, "429") => nextRetryTime' - now <= BackoffCapMs]_vars

\* C38: stopStreamerTTS tears down what the dispatch service derived for the
\* channel. While the streamer has no entry, its watcher starts no query of
\* the ledger and the channel has no donor entry and no queue entry.
C38_TeardownStopsWatcher ==
  /\ [][(WatchTick /\ ~streamerUp) => checks' = checks]_vars
  /\ [](~streamerUp =>
          (queue = <<>> /\ \A a \in Authors : recentDonors[a] = NoDonor))

(***************************************************************************)
(* Properties of the moderation                                            *)
(***************************************************************************)
\* C11: ban idempotence. Messages with a banned phrase from one author lead
\* to one ban of that author: at most one ban request is answered with
\* success, also when a message arrives while another is being handled.
C11_OneBanPerAuthor == \A u \in ModUsers : banOk[u] <= 1

\* C35: recording the author of a successful ban changes nothing else in the
\* moderation settings of the channel: moderation stays enabled and the
\* moderation wallet is kept, in the database and in memory, so that a later
\* message with a banned phrase from another author is still handled.
C35_BanKeepsSettings ==
  [][(\E k \in 1..MaxModTasks : ModAddWrite(k) \/ ModAddDone(k)) =>
       /\ modSettings'.enabled = modSettings.enabled
       /\ modDb'.automodWalletAddress = modDb.automodWalletAddress]_vars

\* C24: the ban counter of the channel never decreases, whatever messages,
\* ban outcomes and re-creations of the streamer's automod come.
C24_BansMonotonic == [][modBans' >= modBans]_vars

\* the users with a message still being handled
ModBusy == {modTasks[k].user : k \in 1..Len(modTasks)}

\* C25: ban outcomes. A ban answered with success adds one to the ban
\* counter and, once its message is handled, the author is in the banned
\* list of the channel; a failed ban leaves the counter and the list as they
\* were and is not tried again.
C25_BanOutcome ==
  /\ \A u \in ModUsers :
       (banOk[u] > 0 /\ u \notin ModBusy) => u \in modDb.banned_users
  /\ \A u \in ModUsers :
       u \in modDb.banned_users => banOk[u] > 0

====
